---- MODULE Spec2Model ----
(***************************************************************************)
(* Model of the reconciliation engine of backend/conciliador.py            *)
(* (conciliar and its helpers) and of backend/normalizador.py.             *)
(*                                                                         *)
(* Text is a sequence of one-character strings.  A spreadsheet cell is a   *)
(* record with a field tipo: "nan" (missing cell), "ts" (a Timestamp,      *)
(* field horas = hours since the epoch), "num" (a number, field n = the    *)
(* value in cents) or "txt" (a string, field txt).  Normalised dates are   *)
(* day numbers, normalised amounts are cents, similarities are hundredths  *)
(* of a percent; Ninguno stands for Python's None / NaT / NaN.             *)
(***************************************************************************)
EXTENDS Integers, Sequences, FiniteSets, TLC

\* ------------------------------------------------------------------ bounds
\* rows of both input frames together, with the usual headers
MaxFilas == 3
\* rows of both input frames together, with any of the headers
MaxFilasEncabezado == 1
\* rows of both input frames together, all dated the same day
MaxFilasMismoDia == 4

\* ------------------------------------------------------- program constants
ventana_dias_posible == 3
umbral_conciliado_defecto == 9000
umbral_posible_min == 7000
umbral_posible_max == 8999
mejor_sim_inicial == 0 - 100
Ninguno == 0 - 1
HorasPorDia == 24

\* ------------------------------------------------------------ text helpers
Min(a, b) == IF a < b THEN a ELSE b
Max(a, b) == IF a > b THEN a ELSE b
Abs(x) == IF x < 0 THEN 0 - x ELSE x

Espacio == " "

RECURSIVE lstrip(_)
lstrip(s) ==
  IF s = <<>> THEN <<>>
  ELSE IF Head(s) = Espacio THEN lstrip(Tail(s)) ELSE s

RECURSIVE rstrip(_)
rstrip(s) ==
  IF s = <<>> THEN <<>>
  ELSE IF s[Len(s)] = Espacio THEN rstrip(SubSeq(s, 1, Len(s) - 1)) ELSE s

strip(s) == rstrip(lstrip(s))

\* str.upper() on the characters the inputs use
upper_char(c) ==
  CASE c = "a" -> "A"
    [] c = "b" -> "B"
    [] c = "c" -> "C"
    [] c = "x" -> "X"
    [] c = "á" -> "Á"
    [] OTHER -> c

upper(s) == [k \in 1..Len(s) |-> upper_char(s[k])]

\* NFKD decomposition followed by dropping the combining marks
_quitar_tildes(s) == [k \in 1..Len(s) |-> IF s[k] = "Á" THEN "A" ELSE s[k]]

\* the class [A-Z0-9\s\-\_\.] of the first re.sub, on the characters in use
Permitidos == {"A", "B", "C", "X", "0", "1", "2", "5", Espacio, "-", "_", "."}

reemplazar_especiales(s) ==
  [k \in 1..Len(s) |-> IF s[k] \in Permitidos THEN s[k] ELSE Espacio]

\* re.sub(r"\s+", " ", texto)
RECURSIVE colapsar_espacios(_)
colapsar_espacios(s) ==
  IF Len(s) < 2 THEN s
  ELSE IF s[1] = Espacio /\ s[2] = Espacio THEN colapsar_espacios(Tail(s))
  ELSE <<s[1]>> \o colapsar_espacios(Tail(s))

\* str.replace(viejo, nuevo) for a one-character viejo; nuevo is a text
RECURSIVE replace(_, _, _)
replace(s, viejo, nuevo) ==
  IF s = <<>> THEN <<>>
  ELSE (IF Head(s) = viejo THEN nuevo ELSE <<Head(s)>>)
         \o replace(Tail(s), viejo, nuevo)

Contiene(s, c) == \E k \in 1..Len(s) : s[k] = c

\* ------------------------------------------------------------ normalizador
\* normalizar_fecha: None for a missing cell and for a text pandas cannot
\* parse (to_datetime coerces it to NaT); a Timestamp is truncated to
\* midnight. Parsable date texts are not among the modelled inputs.
normalizar_fecha(valor) ==
  IF valor.tipo = "nan" THEN Ninguno
  ELSE IF valor.tipo = "ts" THEN valor.horas \div HorasPorDia
  ELSE Ninguno

normalizar_concepto(valor) ==
  IF valor.tipo = "nan" THEN <<>>
  ELSE strip(colapsar_espacios(reemplazar_especiales(
         _quitar_tildes(upper(strip(valor.txt))))))

Digitos == <<"0", "1", "2", "3", "4", "5", "6", "7", "8", "9">>
EsDigito(c) == \E d \in 1..10 : Digitos[d] = c
ValorDigito(c) == (CHOOSE d \in 1..10 : Digitos[d] = c) - 1

RECURSIVE ValorEntero(_)
ValorEntero(s) ==
  IF s = <<>> THEN 0
  ELSE 10 * ValorEntero(SubSeq(s, 1, Len(s) - 1)) + ValorDigito(s[Len(s)])

SoloDigitos(s) == \A k \in 1..Len(s) : EsDigito(s[k])

\* float(texto) followed by round(abs(.), 2), in cents; Ninguno when float()
\* raises ValueError. Texts with more than two decimals, exponents, "inf" and
\* "nan" are not among the modelled inputs.
float_centavos(texto) ==
  LET sinSigno == IF texto # <<>> /\ texto[1] \in {"-", "+"} THEN Tail(texto) ELSE texto
      puntos == {k \in 1..Len(sinSigno) : sinSigno[k] = "."}
  IN  IF sinSigno = <<>> THEN Ninguno
      ELSE IF puntos = {} THEN
        IF SoloDigitos(sinSigno) THEN 100 * ValorEntero(sinSigno) ELSE Ninguno
      ELSE IF Cardinality(puntos) > 1 THEN Ninguno
      ELSE
        LET p == CHOOSE k \in puntos : TRUE
            ent == SubSeq(sinSigno, 1, p - 1)
            dec == SubSeq(sinSigno, p + 1, Len(sinSigno))
        IN  IF ~SoloDigitos(ent) \/ ~SoloDigitos(dec) \/ (ent = <<>> /\ dec = <<>>)
              \/ Len(dec) > 2
            THEN Ninguno
            ELSE 100 * ValorEntero(ent)
                 + (IF Len(dec) = 1 THEN 10 * ValorEntero(dec) ELSE ValorEntero(dec))

normalizar_monto(valor) ==
  IF valor.tipo = "nan" THEN Ninguno
  ELSE IF valor.tipo = "num" THEN Abs(valor.n)
  ELSE
    LET t0 == strip(valor.txt)
    IN  IF t0 = <<>> THEN Ninguno
        ELSE
          LET t1 == replace(t0, Espacio, <<>>)
              t2 == IF Contiene(t1, ",") /\ Contiene(t1, ".")
                    THEN replace(replace(t1, ".", <<>>), ",", <<".">>)
                    ELSE IF Contiene(t1, ",") /\ ~Contiene(t1, ".")
                    THEN replace(t1, ",", <<".">>)
                    ELSE t1
          IN  float_centavos(t2)

\* ------------------------------------------------- rapidfuzz token_sort_ratio
\* code-point order of the characters a normalised concept can hold
Alfabeto == <<Espacio, "-", ".", "0", "1", "2", "5", "A", "B", "C", "X", "_">>
Codigo(c) == CHOOSE k \in 1..Len(Alfabeto) : Alfabeto[k] = c

\* str.split(): the maximal runs of non-space characters
RECURSIVE split(_)
split(s) ==
  LET t == lstrip(s)
  IN  IF t = <<>> THEN <<>>
      ELSE LET fin == IF Contiene(t, Espacio)
                      THEN (CHOOSE k \in 1..Len(t) :
                              t[k] = Espacio /\ \A j \in 1..(k - 1) : t[j] # Espacio) - 1
                      ELSE Len(t)
           IN  <<SubSeq(t, 1, fin)>> \o split(SubSeq(t, fin + 1, Len(t)))

\* Python's string comparison a <= b
RECURSIVE TextoMenorIgual(_, _)
TextoMenorIgual(a, b) ==
  IF a = <<>> THEN TRUE
  ELSE IF b = <<>> THEN FALSE
  ELSE IF Codigo(Head(a)) # Codigo(Head(b)) THEN Codigo(Head(a)) < Codigo(Head(b))
  ELSE TextoMenorIgual(Tail(a), Tail(b))

RECURSIVE Insertar(_, _)
Insertar(t, orden) ==
  IF orden = <<>> THEN <<t>>
  ELSE IF TextoMenorIgual(t, Head(orden)) THEN <<t>> \o orden
  ELSE <<Head(orden)>> \o Insertar(t, Tail(orden))

RECURSIVE sorted(_)
sorted(tokens) ==
  IF tokens = <<>> THEN <<>> ELSE Insertar(Head(tokens), sorted(Tail(tokens)))

RECURSIVE join(_)
join(tokens) ==
  IF tokens = <<>> THEN <<>>
  ELSE IF Len(tokens) = 1 THEN Head(tokens)
  ELSE Head(tokens) \o <<Espacio>> \o join(Tail(tokens))

\* length of a longest common subsequence
RECURSIVE LCS(_, _)
LCS(a, b) ==
  IF a = <<>> \/ b = <<>> THEN 0
  ELSE IF Head(a) = Head(b) THEN 1 + LCS(Tail(a), Tail(b))
  ELSE Max(LCS(Tail(a), b), LCS(a, Tail(b)))

\* fuzz.ratio: the normalised Indel similarity 100 * 2*LCS / (len a + len b),
\* here in hundredths of a percent (rounded down; exact for the modelled texts)
ratio(a, b) ==
  IF Len(a) + Len(b) = 0 THEN 10000
  ELSE (20000 * LCS(a, b)) \div (Len(a) + Len(b))

token_sort_ratio(a, b) == ratio(join(sorted(split(a))), join(sorted(split(b))))

\* ------------------------------------------------------------- the inputs
Txt(s) == [tipo |-> "txt", txt |-> s]
Ts(h) == [tipo |-> "ts", horas |-> h]
Num(n) == [tipo |-> "num", n |-> n]
NaN == [tipo |-> "nan"]

Fila(f, c, m) == [fecha |-> f, concepto |-> c, monto |-> m]

\* rows with valid data: days 1, 4 and 5, amounts 1.00 and 2.00, concepts
\* "A B", "A B C" (75% from "A B") and "A C" (66.66% from "A B")
FilasValidas ==
  { Fila(Ts(29), Txt(<<"a", " ", "b">>), Num(100)),
    Fila(Ts(24), Txt(<<"B", ",", " ", "á", " ", "c">>), Txt(<<"1", ",", "0", "0">>)),
    Fila(Ts(109), Txt(<<" ", "B", " ", " ", "A">>), Num(0 - 100)),
    Fila(Ts(120), Txt(<<"A", " ", "C">>), Txt(<<"1", ".", "0">>)),
    Fila(Ts(24), Txt(<<"A", " ", "B">>), Num(200)) }

\* rows the record builder drops: bad date, bad amount, empty concept
FilasInvalidas ==
  { Fila(Txt(<<"x">>), Txt(<<"A", " ", "B">>), Num(100)),
    Fila(Ts(24), Txt(<<"A", " ", "B">>), NaN),
    Fila(Ts(24), Txt(<<" ", "!">>), Num(100)) }

FilasCrudas == FilasValidas \cup FilasInvalidas

\* the valid rows dated day 1
FilasMismoDia == {f \in FilasValidas : normalizar_fecha(f.fecha) = 1}

SeqHasta(S, n) == UNION {[1..k -> S] : k \in 0..n}

\* --------------------------------------------------------- column resolution
\* str.lower() on the header names in use
lower(c) ==
  CASE c = "Fecha" -> "fecha"
    [] c = "Concepto" -> "concepto"
    [] c = "Monto" -> "monto"
    [] c = "F_GASTO" -> "f_gasto"
    [] c = "Detalle" -> "detalle"
    [] c = "Dia" -> "dia"
    [] c = "Texto" -> "texto"
    [] c = "Total" -> "total"
    [] OTHER -> c

posibles_fecha == <<"fecha", "fecha gasto", "fecha_contable", "f_gasto", "f_contable">>
posibles_concepto ==
  <<"concepto", "descripcion", "detalle", "concepto gasto", "concepto contable">>
posibles_monto == <<"monto", "importe", "valor", "monto gasto", "monto contable">>

SinError == [tipo |-> "ninguno", buscadas |-> <<>>]
ValueError(posibles) == [tipo |-> "ValueError", buscadas |-> posibles]
KeyError == [tipo |-> "KeyError", buscadas |-> <<>>]

\* buscar falling back on the first column when no candidate is present
buscar_con_defecto(columnas, posibles) ==
  LET presentes == {j \in 1..Len(columnas) :
                      \E k \in 1..Len(posibles) : lower(columnas[j]) = posibles[k]}
  IN  IF presentes = {}
      THEN [error |-> SinError, columna |-> columnas[1]]
      ELSE [error |-> SinError,
            columna |-> columnas[CHOOSE x \in presentes : \A y \in presentes : x <= y]]

\* buscar: the column whose lower-cased name is the first candidate present;
\* of two columns with the same lower-cased name the dict keeps the last
buscar(columnas, posibles) ==
  LET presentes == {k \in 1..Len(posibles) :
                      \E j \in 1..Len(columnas) : lower(columnas[j]) = posibles[k]}
  IN  IF presentes = {}
      THEN [error |-> ValueError(posibles), columna |-> ""]
      ELSE LET k == CHOOSE x \in presentes : \A y \in presentes : x <= y
               j == CHOOSE x \in 1..Len(columnas) :
                      /\ lower(columnas[x]) = posibles[k]
                      /\ \A y \in 1..Len(columnas) :
                           lower(columnas[y]) = posibles[k] => y <= x
           IN  [error |-> SinError, columna |-> columnas[j]]

\* _inferir_columnas: the first failing search raises
_inferir_columnas(df) ==
  LET fecha == buscar(df.columnas, posibles_fecha)
      concepto == buscar(df.columnas, posibles_concepto)
      monto == buscar(df.columnas, posibles_monto)
  IN  IF fecha.error # SinError THEN [error |-> fecha.error, config |-> <<>>]
      ELSE IF concepto.error # SinError THEN [error |-> concepto.error, config |-> <<>>]
      ELSE IF monto.error # SinError THEN [error |-> monto.error, config |-> <<>>]
      ELSE [error |-> SinError,
            config |-> [fecha |-> fecha.columna, concepto |-> concepto.columna,
                        monto |-> monto.columna]]

\* the cell of a row under the column of a given name: the columns of a frame
\* hold, in this order, the row's fecha, concepto and monto cells
celda(df, fila, nombre) ==
  LET j == CHOOSE x \in 1..Len(df.columnas) : df.columnas[x] = nombre
  IN  CASE j = 1 -> fila.fecha
        [] j = 2 -> fila.concepto
        [] OTHER -> fila.monto

\* ------------------------------------------------------------ record builder
\* the filter of _preparar_dataframe
fila_valida_sin_concepto(r) == r.fecha_norm # Ninguno /\ r.monto_norm # Ninguno

fila_valida(r) ==
  r.fecha_norm # Ninguno /\ Len(r.concepto_norm) > 0 /\ r.monto_norm # Ninguno

\* reset_index(drop=True) and the id column conciliar adds from the new index;
\* fila is the position the row had in the input (history, not program state)
reset_index(filas) == [k \in 1..Len(filas) |-> [filas[k] EXCEPT !.id = k - 1]]

_preparar_dataframe(df) ==
  LET inf == _inferir_columnas(df)
  IN  IF inf.error # SinError THEN [error |-> inf.error, filas |-> <<>>]
      ELSE
        LET normalizada(k) ==
              [fila |-> k,
               id |-> Ninguno,
               concepto |-> celda(df, df.filas[k], inf.config.concepto),
               fecha_norm |-> normalizar_fecha(celda(df, df.filas[k], inf.config.fecha)),
               concepto_norm |->
                 normalizar_concepto(celda(df, df.filas[k], inf.config.concepto)),
               monto_norm |-> normalizar_monto(celda(df, df.filas[k], inf.config.monto))]
            todas == [k \in 1..Len(df.filas) |-> normalizada(k)]
        IN  [error |-> SinError, filas |-> reset_index(SelectSeq(todas, fila_valida))]

\* ------------------------------------------------------------------ matcher
_calcular_similitud_concepto(a, b) ==
  IF a = <<>> \/ b = <<>> THEN 0 ELSE token_sort_ratio(a, b)

VARIABLES
  gastos_df,          \* argument: the statement-side frame [columnas, filas]
  contable_df,        \* argument: the ledger-side frame
  umbral_conciliado,  \* argument: the matched threshold
  llamada,            \* "primera" or "segunda" invocation on these arguments
  salida_anterior,    \* what the first invocation produced
  pc,                 \* position in conciliar
  error,              \* the exception conciliar raised, if any
  gastos,             \* prepared statement frame
  contable,           \* prepared ledger frame
  resultados,         \* the list of output rows
  usados_contable,    \* ids of the ledger rows already paired
  i,                  \* position of the running loop
  gastos_pendientes   \* ids of the statement rows pass 2 iterates over

vars == <<gastos_df, contable_df, umbral_conciliado, llamada, salida_anterior, pc,
          error, gastos, contable, resultados, usados_contable, i, gastos_pendientes>>

argumentos == <<gastos_df, contable_df, umbral_conciliado>>

\* registrar_match without the ledger id being marked as used
registrar_match_sin_marcar(res, usados, id_gasto, id_contable, estado, sim) ==
  LET gasto_row == gastos[id_gasto + 1]
      hay == id_contable # Ninguno
  IN  [resultados |->
         Append(res,
           [Fecha_gasto |-> gasto_row.fecha_norm,
            Concepto_gasto |-> gasto_row.concepto,
            Monto_gasto |-> gasto_row.monto_norm,
            Fecha_contable |-> IF hay THEN contable[id_contable + 1].fecha_norm ELSE Ninguno,
            Concepto_contable |-> IF hay THEN contable[id_contable + 1].concepto ELSE NaN,
            Monto_contable |-> IF hay THEN contable[id_contable + 1].monto_norm ELSE Ninguno,
            Estado |-> estado,
            Observaciones |-> sim,
            id_gasto |-> id_gasto,
            id_contable |-> id_contable]),
       usados |-> usados]

\* registrar_match: appends one output row and marks the ledger id as used.
\* Observaciones holds the similarity the message prints (Ninguno when the
\* message has none); id_gasto and id_contable record the call's arguments.
registrar_match(res, usados, id_gasto, id_contable, estado, sim) ==
  LET gasto_row == gastos[id_gasto + 1]
      hay == id_contable # Ninguno
  IN  [resultados |->
         Append(res,
           [Fecha_gasto |-> gasto_row.fecha_norm,
            Concepto_gasto |-> gasto_row.concepto,
            Monto_gasto |-> gasto_row.monto_norm,
            Fecha_contable |-> IF hay THEN contable[id_contable + 1].fecha_norm ELSE Ninguno,
            Concepto_contable |-> IF hay THEN contable[id_contable + 1].concepto ELSE NaN,
            Monto_contable |-> IF hay THEN contable[id_contable + 1].monto_norm ELSE Ninguno,
            Estado |-> estado,
            Observaciones |-> sim,
            id_gasto |-> id_gasto,
            id_contable |-> id_contable]),
       usados |-> IF hay THEN usados \cup {id_contable} ELSE usados]

\* the candidate filter of pass 1
candidatos_paso1(gasto_row) ==
  LET es(c) == /\ c.id \notin usados_contable
               /\ c.fecha_norm = gasto_row.fecha_norm
               /\ c.monto_norm = gasto_row.monto_norm
  IN  SelectSeq(contable, es)

\* the candidate filter of pass 2 without the upper end of the window
candidatos_paso2_sin_fecha_max(gasto_row) ==
  LET fecha_min == gasto_row.fecha_norm - ventana_dias_posible
      es(c) == /\ c.id \notin usados_contable
               /\ c.fecha_norm >= fecha_min
               /\ c.monto_norm = gasto_row.monto_norm
  IN  SelectSeq(contable, es)

\* the candidate filter of pass 2 without the amount comparison
candidatos_paso2_sin_monto(gasto_row) ==
  LET fecha_min == gasto_row.fecha_norm - ventana_dias_posible
      fecha_max == gasto_row.fecha_norm + ventana_dias_posible
      es(c) == /\ c.id \notin usados_contable
               /\ c.fecha_norm >= fecha_min
               /\ c.fecha_norm <= fecha_max
  IN  SelectSeq(contable, es)

\* the candidate filter of pass 2
candidatos_paso2(gasto_row) ==
  LET fecha_min == gasto_row.fecha_norm - ventana_dias_posible
      fecha_max == gasto_row.fecha_norm + ventana_dias_posible
      es(c) == /\ c.id \notin usados_contable
               /\ c.fecha_norm >= fecha_min
               /\ c.fecha_norm <= fecha_max
               /\ c.monto_norm = gasto_row.monto_norm
  IN  SelectSeq(contable, es)

\* the loop keeping the candidate of greater or equal similarity
RECURSIVE elegir_mejor_ultimo(_, _, _, _)
elegir_mejor_ultimo(gasto_row, candidatos, mejor_id, mejor_sim) ==
  IF candidatos = <<>> THEN [id |-> mejor_id, sim |-> mejor_sim]
  ELSE LET cont_row == Head(candidatos)
           sim == _calcular_similitud_concepto(gasto_row.concepto_norm,
                                               cont_row.concepto_norm)
       IN  IF sim >= mejor_sim
           THEN elegir_mejor_ultimo(gasto_row, Tail(candidatos), cont_row.id, sim)
           ELSE elegir_mejor_ultimo(gasto_row, Tail(candidatos), mejor_id, mejor_sim)

\* the loop that keeps the candidate of strictly greater similarity
RECURSIVE elegir_mejor(_, _, _, _)
elegir_mejor(gasto_row, candidatos, mejor_id, mejor_sim) ==
  IF candidatos = <<>> THEN [id |-> mejor_id, sim |-> mejor_sim]
  ELSE LET cont_row == Head(candidatos)
           sim == _calcular_similitud_concepto(gasto_row.concepto_norm,
                                               cont_row.concepto_norm)
       IN  IF sim > mejor_sim
           THEN elegir_mejor(gasto_row, Tail(candidatos), cont_row.id, sim)
           ELSE elegir_mejor(gasto_row, Tail(candidatos), mejor_id, mejor_sim)

\* gastos[gastos["fecha_norm"].dt.date == fecha].index[0]
primer_indice(fecha) ==
  LET ids == {gastos[k].id : k \in {x \in 1..Len(gastos) : gastos[x].fecha_norm = fecha}}
  IN  CHOOSE x \in ids : \A y \in ids : x <= y

\* the ids excluded by the date of the rows emitted so far
ids_por_fecha(res) == {primer_indice(res[k].Fecha_gasto) : k \in 1..Len(res)}

\* ------------------------------------------------------------ initial state
EncabezadoUsual == <<"Fecha", "Concepto", "Monto">>

Encabezados ==
  { EncabezadoUsual,
    <<"F_GASTO", "Detalle", "importe">>,
    <<"Dia", "Concepto", "Monto">>,
    <<"Fecha", "Texto", "Monto">>,
    <<"Fecha", "Concepto", "Total">> }

SinSalida == [pc |-> "ninguna", error |-> SinError, resultados |-> <<>>]

\* two frames with the given headers and at most n rows of S together
EntradasDe(columnas_gastos, columnas_contable, S, n) ==
  \E a \in 0..n :
    /\ gastos_df \in [columnas : {columnas_gastos}, filas : [1..a -> S]]
    /\ contable_df \in [columnas : {columnas_contable}, filas : SeqHasta(S, n - a)]

\* two frames with the given headers and at most n rows together
Entradas(columnas_gastos, columnas_contable, n) ==
  EntradasDe(columnas_gastos, columnas_contable, FilasCrudas, n)

\* conciliar is about to be called: frames with the usual headers and at most
\* MaxFilas rows, or frames with any of the headers and at most
\* MaxFilasEncabezado rows, or frames with the usual headers and at most
\* MaxFilasMismoDia valid rows of one day; u is the matched threshold passed
InitCon(u) ==
  /\ \/ Entradas(EncabezadoUsual, EncabezadoUsual, MaxFilas)
     \/ EntradasDe(EncabezadoUsual, EncabezadoUsual, FilasMismoDia, MaxFilasMismoDia)
     \/ \E cg \in Encabezados, cc \in Encabezados : Entradas(cg, cc, MaxFilasEncabezado)
  /\ umbral_conciliado = u
  /\ llamada = "primera"
  /\ salida_anterior = SinSalida
  /\ pc = "inicio"
  /\ error = SinError
  /\ gastos = <<>>
  /\ contable = <<>>
  /\ resultados = <<>>
  /\ usados_contable = {}
  /\ i = 1
  /\ gastos_pendientes = <<>>

Init == InitCon(umbral_conciliado_defecto)

\* ------------------------------------------------------------------ actions
\* conciliar's entry without the fresh result list and used-id set
Entrar_sin_reiniciar ==
  /\ pc = "inicio"
  /\ _preparar_dataframe(gastos_df).error = SinError
  /\ _preparar_dataframe(contable_df).error = SinError
  /\ gastos' = _preparar_dataframe(gastos_df).filas
  /\ contable' = _preparar_dataframe(contable_df).filas
  /\ pc' = "paso1"
  /\ i' = 1
  /\ UNCHANGED <<argumentos, llamada, salida_anterior, error, resultados, usados_contable,
                 gastos_pendientes>>

\* conciliar's entry: both frames are prepared, the result list and the set of
\* used ledger ids start empty
Entrar ==
  /\ pc = "inicio"
  /\ _preparar_dataframe(gastos_df).error = SinError
  /\ _preparar_dataframe(contable_df).error = SinError
  /\ gastos' = _preparar_dataframe(gastos_df).filas
  /\ contable' = _preparar_dataframe(contable_df).filas
  /\ resultados' = <<>>
  /\ usados_contable' = {}
  /\ pc' = "paso1"
  /\ i' = 1
  /\ UNCHANGED <<argumentos, llamada, salida_anterior, error, gastos_pendientes>>

\* conciliar's entry when a required column is missing: the statement frame is
\* prepared first, so its error wins
EntrarValueError ==
  /\ pc = "inicio"
  /\ LET g == _preparar_dataframe(gastos_df)
         c == _preparar_dataframe(contable_df)
     IN  /\ g.error # SinError \/ c.error # SinError
         /\ error' = IF g.error # SinError THEN g.error ELSE c.error
  /\ pc' = "error"
  /\ UNCHANGED <<argumentos, llamada, salida_anterior, gastos, contable, resultados,
                 usados_contable, i, gastos_pendientes>>

\* one iteration of pass 1 without the comparison with the matched threshold
Paso1_sin_umbral ==
  /\ pc = "paso1"
  /\ i <= Len(gastos)
  /\ LET gasto_row == gastos[i]
         candidatos == candidatos_paso1(gasto_row)
         mejor == elegir_mejor(gasto_row, candidatos, Ninguno, mejor_sim_inicial)
     IN  IF candidatos # <<>> /\ mejor.id # Ninguno
         THEN LET r == registrar_match(resultados, usados_contable, gasto_row.id,
                                       mejor.id, "Conciliado", mejor.sim)
              IN  /\ resultados' = r.resultados
                  /\ usados_contable' = r.usados
         ELSE UNCHANGED <<resultados, usados_contable>>
  /\ i' = i + 1
  /\ UNCHANGED <<argumentos, llamada, salida_anterior, pc, error, gastos, contable,
                 gastos_pendientes>>

\* one iteration of pass 1
Paso1 ==
  /\ pc = "paso1"
  /\ i <= Len(gastos)
  /\ LET gasto_row == gastos[i]
         candidatos == candidatos_paso1(gasto_row)
         mejor == elegir_mejor(gasto_row, candidatos, Ninguno, mejor_sim_inicial)
     IN  IF candidatos # <<>> /\ mejor.id # Ninguno /\ mejor.sim >= umbral_conciliado
         THEN LET r == registrar_match(resultados, usados_contable, gasto_row.id,
                                       mejor.id, "Conciliado", mejor.sim)
              IN  /\ resultados' = r.resultados
                  /\ usados_contable' = r.usados
         ELSE UNCHANGED <<resultados, usados_contable>>
  /\ i' = i + 1
  /\ UNCHANGED <<argumentos, llamada, salida_anterior, pc, error, gastos, contable,
                 gastos_pendientes>>

\* end of pass 1: the statement rows pass 2 iterates over
Paso2Inicio ==
  /\ pc = "paso1"
  /\ i > Len(gastos)
  /\ LET excluidos == ids_por_fecha(resultados)
         pendientes == SelectSeq(gastos, LAMBDA g : g.id \notin excluidos)
     IN  gastos_pendientes' = [k \in 1..Len(pendientes) |-> pendientes[k].id]
  /\ pc' = "paso2"
  /\ i' = 1
  /\ UNCHANGED <<argumentos, llamada, salida_anterior, error, gastos, contable, resultados,
                 usados_contable>>

\* one iteration of pass 2 without the upper limit of the Possible range
Paso2_sin_maximo ==
  /\ pc = "paso2"
  /\ i <= Len(gastos_pendientes)
  /\ LET gasto_row == gastos[gastos_pendientes[i] + 1]
         candidatos == candidatos_paso2(gasto_row)
         mejor == elegir_mejor(gasto_row, candidatos, Ninguno, mejor_sim_inicial)
     IN  IF /\ candidatos # <<>>
            /\ mejor.id # Ninguno
            /\ mejor.sim >= umbral_posible_min
         THEN LET r == registrar_match(resultados, usados_contable, gasto_row.id,
                                       mejor.id, "Posible", mejor.sim)
              IN  /\ resultados' = r.resultados
                  /\ usados_contable' = r.usados
         ELSE UNCHANGED <<resultados, usados_contable>>
  /\ i' = i + 1
  /\ UNCHANGED <<argumentos, llamada, salida_anterior, pc, error, gastos, contable,
                 gastos_pendientes>>

\* one iteration of pass 2
Paso2 ==
  /\ pc = "paso2"
  /\ i <= Len(gastos_pendientes)
  /\ LET gasto_row == gastos[gastos_pendientes[i] + 1]
         candidatos == candidatos_paso2(gasto_row)
         mejor == elegir_mejor(gasto_row, candidatos, Ninguno, mejor_sim_inicial)
     IN  IF /\ candidatos # <<>>
            /\ mejor.id # Ninguno
            /\ mejor.sim >= umbral_posible_min
            /\ mejor.sim <= umbral_posible_max
         THEN LET r == registrar_match(resultados, usados_contable, gasto_row.id,
                                       mejor.id, "Posible", mejor.sim)
              IN  /\ resultados' = r.resultados
                  /\ usados_contable' = r.usados
         ELSE UNCHANGED <<resultados, usados_contable>>
  /\ i' = i + 1
  /\ UNCHANGED <<argumentos, llamada, salida_anterior, pc, error, gastos, contable,
                 gastos_pendientes>>

\* the loop of step 3 from the statement row at position k on
RECURSIVE gastos_no_conciliados(_, _, _)
gastos_no_conciliados(res, k, ids_gasto_conciliados) ==
  IF k > Len(gastos) THEN res
  ELSE IF gastos[k].id \in ids_gasto_conciliados
  THEN gastos_no_conciliados(res, k + 1, ids_gasto_conciliados)
  ELSE gastos_no_conciliados(
         registrar_match(res, usados_contable, gastos[k].id, Ninguno, "No conciliado",
                         Ninguno).resultados,
         k + 1, ids_gasto_conciliados)

\* step 3: the statement rows reported as not reconciled
Paso3 ==
  /\ pc = "paso2"
  /\ i > Len(gastos_pendientes)
  /\ resultados' = gastos_no_conciliados(resultados, 1, ids_por_fecha(resultados))
  /\ pc' = "paso4"
  /\ UNCHANGED <<argumentos, llamada, salida_anterior, error, gastos, contable,
                 usados_contable, i, gastos_pendientes>>

\* the output row of a ledger record without statement record
fila_contable_sobrante(cont_row) ==
  [Fecha_gasto |-> Ninguno,
   Concepto_gasto |-> NaN,
   Monto_gasto |-> Ninguno,
   Fecha_contable |-> cont_row.fecha_norm,
   Concepto_contable |-> cont_row.concepto,
   Monto_contable |-> cont_row.monto_norm,
   Estado |-> "No conciliado",
   Observaciones |-> Ninguno,
   id_gasto |-> Ninguno,
   id_contable |-> cont_row.id]

\* the output after step 4, which adds the ledger rows never used
con_sobrantes(res) ==
  LET sobrantes == SelectSeq(contable, LAMBDA c : c.id \notin usados_contable)
  IN  res \o [k \in 1..Len(sobrantes) |-> fila_contable_sobrante(sobrantes[k])]

\* step 4 and the final frame: selecting the output columns of a frame built
\* from at least one row succeeds
Devolver ==
  /\ pc = "paso4"
  /\ con_sobrantes(resultados) # <<>>
  /\ resultados' = con_sobrantes(resultados)
  /\ pc' = "fin"
  /\ UNCHANGED <<argumentos, llamada, salida_anterior, error, gastos, contable,
                 usados_contable, i, gastos_pendientes>>

\* step 4 and the final frame: pd.DataFrame([]) has no columns, selecting the
\* output columns raises KeyError
DevolverKeyError ==
  /\ pc = "paso4"
  /\ con_sobrantes(resultados) = <<>>
  /\ pc' = "error"
  /\ error' = KeyError
  /\ UNCHANGED <<argumentos, llamada, salida_anterior, gastos, contable, resultados,
                 usados_contable, i, gastos_pendientes>>

\* the caller invokes conciliar a second time with the same arguments
Reinvocar ==
  /\ pc \in {"fin", "error"}
  /\ llamada = "primera"
  /\ salida_anterior' = [pc |-> pc, error |-> error,
                         resultados |-> IF pc = "fin" THEN resultados ELSE <<>>]
  /\ llamada' = "segunda"
  /\ pc' = "inicio"
  /\ error' = SinError
  /\ UNCHANGED <<argumentos, gastos, contable, resultados, usados_contable, i,
                 gastos_pendientes>>

Next ==
  \/ Entrar
  \/ EntrarValueError
  \/ Paso1
  \/ Paso2Inicio
  \/ Paso2
  \/ Paso3
  \/ Devolver
  \/ DevolverKeyError
  \/ Reinvocar

Spec == Init /\ [][Next]_vars

\* the degenerate configuration: matched threshold 0
InitDegenerado == InitCon(0)

SpecDegenerado == InitDegenerado /\ [][Next]_vars

\* ------------------------------------------------------------------ claims
Rango(seq) == {seq[k] : k \in 1..Len(seq)}

IdsGasto == {gastos[k].id : k \in 1..Len(gastos)}
IdsContable == {contable[k].id : k \in 1..Len(contable)}

\* positions of the output rows that carry a given statement / ledger record
FilasDeGasto(g) == {j \in 1..Len(resultados) : resultados[j].id_gasto = g}
FilasDeContable(c) == {j \in 1..Len(resultados) : resultados[j].id_contable = c}

EsPar(r) == r.Estado \in {"Conciliado", "Posible"}

\* a frame has, for each role, a header among the names searched for
Resuelve(df) ==
  \A posibles \in {posibles_fecha, posibles_concepto, posibles_monto} :
    \E j \in 1..Len(df.columnas) : lower(df.columnas[j]) \in Rango(posibles)

\* a raw row (cells by role) whose normalised date, amount and concept exist
Valida(f) ==
  /\ normalizar_fecha(f.fecha) # Ninguno
  /\ normalizar_monto(f.monto) # Ninguno
  /\ normalizar_concepto(f.concepto) # <<>>

\* both frames have been prepared by the running invocation
Preparado == pc \in {"paso1", "paso2", "paso4", "fin"} \/ (pc = "error" /\ error = KeyError)

\* C1: when conciliar returns, every surviving statement record and every
\* surviving ledger record is carried by exactly one output row.
C1_CadaRegistroEnUnaFila ==
  pc = "fin" =>
    /\ \A g \in IdsGasto : Cardinality(FilasDeGasto(g)) = 1
    /\ \A c \in IdsContable : Cardinality(FilasDeContable(c)) = 1

\* C2: at every moment a statement record is carried by at most one output
\* row: once emitted (Matched, Possible or unmatched) it is never emitted again.
C2_GastoEmitidoUnaVez ==
  \A g \in IdsGasto : Cardinality(FilasDeGasto(g)) <= 1

\* C3: a ledger record is carried by at most one output row; a paired ledger
\* record is marked as used, is not reported as unmatched and is not a
\* candidate of the statement record about to be processed.
C3_ContableConsumidoUnaVez ==
  \A c \in IdsContable :
    /\ Cardinality(FilasDeContable(c)) <= 1
    /\ (\E j \in FilasDeContable(c) : EsPar(resultados[j])) =>
         /\ c \in usados_contable
         /\ \A j \in FilasDeContable(c) : EsPar(resultados[j])
         /\ (pc = "paso1" /\ i <= Len(gastos)) =>
              c \notin {x.id : x \in Rango(candidatos_paso1(gastos[i]))}
         /\ (pc = "paso2" /\ i <= Len(gastos_pendientes)) =>
              c \notin {x.id : x \in Rango(candidatos_paso2(gastos[gastos_pendientes[i] + 1]))}

\* a ledger record was paired with one of two statement records of identical
\* date, amount and concept; the other one ended unmatched
C3_Testigo ==
  /\ pc = "fin"
  /\ \E j, k \in 1..Len(resultados) :
       /\ resultados[j].Estado = "Conciliado"
       /\ resultados[k].Estado = "No conciliado"
       /\ resultados[k].id_gasto \in IdsGasto
       /\ resultados[k].id_gasto # resultados[j].id_gasto
       /\ gastos[resultados[k].id_gasto + 1].fecha_norm = resultados[j].Fecha_contable
       /\ gastos[resultados[k].id_gasto + 1].monto_norm = resultados[j].Monto_contable
       /\ gastos[resultados[k].id_gasto + 1].concepto_norm
            = gastos[resultados[j].id_gasto + 1].concepto_norm

\* C4: the two records of every pairing have equal normalised amounts; those
\* of a Matched pairing have equal normalised dates; those of a Possible
\* pairing have normalised dates at most ventana_dias_posible days apart.
C4_ParesCoherentes ==
  \A j \in 1..Len(resultados) :
    EsPar(resultados[j]) =>
      LET g == gastos[resultados[j].id_gasto + 1]
          c == contable[resultados[j].id_contable + 1]
      IN  /\ g.monto_norm = c.monto_norm
          /\ resultados[j].Estado = "Conciliado" => g.fecha_norm = c.fecha_norm
          /\ resultados[j].Estado = "Posible" =>
               Abs(g.fecha_norm - c.fecha_norm) <= ventana_dias_posible

\* a Possible pairing of two records of equal amount whose dates are exactly
\* ventana_dias_posible days apart
C4_Testigo ==
  \E j \in 1..Len(resultados) :
    /\ resultados[j].Estado = "Posible"
    /\ resultados[j].Monto_gasto = resultados[j].Monto_contable
    /\ Abs(resultados[j].Fecha_gasto - resultados[j].Fecha_contable)
         = ventana_dias_posible

\* C5: a second invocation on the same frames and configuration ends as the
\* first did: the same exception, or the same list of output rows.
C5_Determinismo ==
  (llamada = "segunda" /\ pc \in {"fin", "error"}) =>
    /\ salida_anterior.pc = pc
    /\ salida_anterior.error = error
    /\ pc = "fin" => salida_anterior.resultados = resultados

\* the second invocation returned after pairing a statement record with the
\* first of two ledger records of the same date, amount and similarity
C5_Testigo ==
  /\ llamada = "segunda"
  /\ pc = "fin"
  /\ Len(contable) >= 2
  /\ contable[1].fecha_norm = contable[2].fecha_norm
  /\ contable[1].monto_norm = contable[2].monto_norm
  /\ contable[1].concepto_norm = contable[2].concepto_norm
  /\ \E j \in 1..Len(resultados) :
       /\ resultados[j].Estado = "Conciliado"
       /\ resultados[j].id_contable = contable[1].id
  /\ \E j \in 1..Len(resultados) :
       /\ resultados[j].Estado = "No conciliado"
       /\ resultados[j].id_contable = contable[2].id

\* the record builder's contract for one side
Construido(df, frame, ids_salida) ==
  /\ \A k \in 1..Len(frame) :
       /\ frame[k].id = k - 1
       /\ frame[k].fila \in 1..Len(df.filas)
       /\ Valida(df.filas[frame[k].fila])
       /\ frame[k].fecha_norm = normalizar_fecha(df.filas[frame[k].fila].fecha)
       /\ frame[k].monto_norm = normalizar_monto(df.filas[frame[k].fila].monto)
       /\ frame[k].concepto_norm = normalizar_concepto(df.filas[frame[k].fila].concepto)
       /\ k > 1 => frame[k - 1].fila < frame[k].fila
  /\ \A n \in 1..Len(df.filas) :
       Valida(df.filas[n]) => \E k \in 1..Len(frame) : frame[k].fila = n
  /\ ids_salida \subseteq {k - 1 : k \in 1..Len(frame)} \cup {Ninguno}

\* C6: the prepared frames hold exactly the input rows whose normalised date,
\* amount and concept exist, in their original order, with ids 0, 1, 2, ...;
\* every output row refers to rows of the prepared frames only.
C6_FiltradoYNumeracion ==
  Preparado =>
    /\ Construido(gastos_df, gastos, {resultados[j].id_gasto : j \in 1..Len(resultados)})
    /\ Construido(contable_df, contable,
                  {resultados[j].id_contable : j \in 1..Len(resultados)})

\* conciliar returned on a statement frame whose first row was dropped and
\* whose second row survived, and a ledger frame with a dropped row
C6_Testigo ==
  /\ pc = "fin"
  /\ Len(gastos_df.filas) = 2
  /\ ~Valida(gastos_df.filas[1])
  /\ Len(gastos) = 1
  /\ gastos[1].fila = 2
  /\ \E n \in 1..Len(contable_df.filas) : ~Valida(contable_df.filas[n])
  /\ \E j \in 1..Len(resultados) : resultados[j].id_gasto = 0

\* C7: when a frame lacks a header for a required role, conciliar raises a
\* ValueError that lists the names searched for that role, and no pass runs:
\* no frame is prepared and no output row exists.
C7_ColumnaFaltanteFatal ==
  ~(Resuelve(gastos_df) /\ Resuelve(contable_df)) =>
    /\ pc \in {"inicio", "error"}
    /\ resultados = <<>>
    /\ gastos = <<>> /\ contable = <<>>
    /\ usados_contable = {}
    /\ pc = "error" =>
         /\ error.tipo = "ValueError"
         /\ error.buscadas \in {posibles_fecha, posibles_concepto, posibles_monto}
         /\ \E df \in {gastos_df, contable_df} :
              \A j \in 1..Len(df.columnas) : lower(df.columnas[j]) \notin Rango(error.buscadas)
    /\ llamada = "segunda" => salida_anterior.pc = "error"

\* the statement frame resolves and has a row, the ledger frame lacks the
\* amount column, and conciliar has raised
C7_Testigo ==
  /\ pc = "error"
  /\ Resuelve(gastos_df)
  /\ gastos_df.filas # <<>>
  /\ ~Resuelve(contable_df)
  /\ error = ValueError(posibles_monto)

\* C8: on two frames whose columns resolve conciliar never raises.
C8_NuncaFallaConColumnas ==
  (Resuelve(gastos_df) /\ Resuelve(contable_df)) => pc # "error"

\* no ledger record has the amount of a statement record whose date is within
\* the window of its own
SinCandidatos ==
  \A g \in Rango(gastos), c \in Rango(contable) :
    ~(/\ c.monto_norm = g.monto_norm
      /\ Abs(c.fecha_norm - g.fecha_norm) <= ventana_dias_posible)

\* C9: when no ledger record has the amount of a statement record with a date
\* within the window, the returned output has no pairing and reports every
\* statement record and every ledger record once, as unmatched; an output is
\* returned whenever a record survives on either side.
C9_SinCandidatosTodoNoConciliado ==
  /\ (Preparado /\ SinCandidatos /\ pc = "error") => (gastos = <<>> /\ contable = <<>>)
  /\ (pc = "fin" /\ SinCandidatos) =>
    /\ \A j \in 1..Len(resultados) : resultados[j].Estado = "No conciliado"
    /\ \A g \in IdsGasto :
         \E j \in 1..Len(resultados) :
           /\ FilasDeGasto(g) = {j}
           /\ resultados[j].id_contable = Ninguno
    /\ \A c \in IdsContable :
         \E j \in 1..Len(resultados) :
           /\ FilasDeContable(c) = {j}
           /\ resultados[j].id_gasto = Ninguno
    /\ Len(resultados) = Len(gastos) + Len(contable)

\* conciliar returned on records of both sides, among them a statement and a
\* ledger record of equal date and similar concept but different amounts
C9_Testigo ==
  /\ pc = "fin"
  /\ SinCandidatos
  /\ \E g \in Rango(gastos), c \in Rango(contable) :
       /\ g.fecha_norm = c.fecha_norm
       /\ _calcular_similitud_concepto(g.concepto_norm, c.concepto_norm)
            >= umbral_posible_min

\* the unconsumed ledger ids of the date and amount of a statement record
CandidatosExactos(g) ==
  {c.id : c \in {x \in Rango(contable) :
                   /\ x.id \notin usados_contable
                   /\ x.fecha_norm = g.fecha_norm
                   /\ x.monto_norm = g.monto_norm}}

SimCon(g, c) ==
  _calcular_similitud_concepto(g.concepto_norm, contable[c + 1].concepto_norm)

\* the step of pass 1 on statement record g emits it as Matched with ledger id c
EmiteConciliado(g, c) ==
  /\ Len(resultados') = Len(resultados) + 1
  /\ resultados'[Len(resultados')].Estado = "Conciliado"
  /\ resultados'[Len(resultados')].id_gasto = g.id
  /\ resultados'[Len(resultados')].id_contable = c
  /\ usados_contable' = usados_contable \cup {c}

\* C10 as stated: with threshold 0 every step of pass 1 on a statement record
\* with at least one candidate emits it as Matched with the candidate of
\* lowest ledger id.
C10_PrimerCandidato ==
  [][(pc = "paso1" /\ i <= Len(gastos) /\ umbral_conciliado = 0
        /\ CandidatosExactos(gastos[i]) # {}) =>
       \E c \in CandidatosExactos(gastos[i]) :
         /\ \A d \in CandidatosExactos(gastos[i]) : c <= d
         /\ EmiteConciliado(gastos[i], c)]_vars

\* C10 amended: with threshold 0 every step of pass 1 on a statement record
\* with at least one candidate emits it as Matched with the candidate of
\* greatest similarity, the lowest ledger id among those of greatest similarity.
C10_MejorCandidato ==
  [][(pc = "paso1" /\ i <= Len(gastos) /\ umbral_conciliado = 0
        /\ CandidatosExactos(gastos[i]) # {}) =>
       \E c \in CandidatosExactos(gastos[i]) :
         /\ \A d \in CandidatosExactos(gastos[i]) :
              \/ SimCon(gastos[i], d) < SimCon(gastos[i], c)
              \/ (SimCon(gastos[i], d) = SimCon(gastos[i], c) /\ c <= d)
         /\ EmiteConciliado(gastos[i], c)]_vars

\* with threshold 0 conciliar returned after matching the first statement
\* record with the second of two ledger records of its date and amount
C10_Testigo ==
  /\ umbral_conciliado = 0
  /\ pc = "fin"
  /\ Len(contable) = 2
  /\ contable[1].fecha_norm = contable[2].fecha_norm
  /\ contable[1].monto_norm = contable[2].monto_norm
  /\ resultados[1].Estado = "Conciliado"
  /\ resultados[1].id_contable = 1
  /\ resultados[1].Fecha_gasto = contable[1].fecha_norm
  /\ resultados[1].Monto_gasto = contable[1].monto_norm

\* ledger id c has the greatest similarity with statement record g among the
\* ids of S and is the lowest id among those of greatest similarity
EsMejor(g, c, S) ==
  /\ c \in S
  /\ \A d \in S :
       \/ SimCon(g, d) < SimCon(g, c)
       \/ (SimCon(g, d) = SimCon(g, c) /\ c <= d)

\* C11: pass 1 takes the statement records in their original order, one per
\* step; when some unconsumed ledger record of the date and amount of the
\* record reaches the matched threshold, the step emits the record as Matched
\* with the candidate of greatest similarity (lowest id among those tied) and
\* consumes that ledger id; otherwise the step emits and consumes nothing.
C11_SeleccionPaso1 ==
  [][(pc = "paso1" /\ i <= Len(gastos)) =>
       /\ gastos[i].id = i - 1
       /\ i' = i + 1
       /\ pc' = "paso1"
       /\ IF \E c \in CandidatosExactos(gastos[i]) :
               SimCon(gastos[i], c) >= umbral_conciliado
          THEN \E c \in CandidatosExactos(gastos[i]) :
                 /\ EsMejor(gastos[i], c, CandidatosExactos(gastos[i]))
                 /\ EmiteConciliado(gastos[i], c)
          ELSE UNCHANGED <<resultados, usados_contable>>]_vars

\* with the default threshold conciliar returned after pass 1 matched the
\* first statement record with the second of two ledger records of its date
\* and amount, the first of which is below the threshold, and left the second
\* statement record, whose only candidate is below the threshold, unmatched
C11_Testigo ==
  /\ umbral_conciliado = umbral_conciliado_defecto
  /\ pc = "fin"
  /\ Len(gastos) = 2
  /\ Len(contable) = 2
  /\ \A g \in Rango(gastos), c \in Rango(contable) :
       g.fecha_norm = c.fecha_norm /\ g.monto_norm = c.monto_norm
  /\ _calcular_similitud_concepto(gastos[1].concepto_norm, contable[1].concepto_norm)
       < umbral_conciliado
  /\ _calcular_similitud_concepto(gastos[2].concepto_norm, contable[1].concepto_norm)
       < umbral_conciliado
  /\ resultados[1].Estado = "Conciliado"
  /\ resultados[1].id_gasto = 0
  /\ resultados[1].id_contable = 1
  /\ \A j \in 1..Len(resultados) : resultados[j].Estado = "Conciliado" => j = 1

\* the unconsumed ledger ids of the amount of a statement record and of a date
\* at most ventana_dias_posible days from its own
CandidatosVentana(g) ==
  {c.id : c \in {x \in Rango(contable) :
                   /\ x.id \notin usados_contable
                   /\ x.monto_norm = g.monto_norm
                   /\ Abs(x.fecha_norm - g.fecha_norm) <= ventana_dias_posible}}

\* the step of pass 2 on statement record g emits it as Possible with ledger id c
EmitePosible(g, c) ==
  /\ Len(resultados') = Len(resultados) + 1
  /\ resultados'[Len(resultados')].Estado = "Posible"
  /\ resultados'[Len(resultados')].id_gasto = g.id
  /\ resultados'[Len(resultados')].id_contable = c
  /\ usados_contable' = usados_contable \cup {c}

EnRangoPosible(sim) == sim >= umbral_posible_min /\ sim <= umbral_posible_max

\* C12: every step of pass 2 takes, among the unconsumed ledger records of the
\* amount of its statement record and of a date within the window, the one of
\* greatest similarity (lowest id among those tied); when that similarity lies
\* between umbral_posible_min and umbral_posible_max the step emits the record
\* as Possible with that candidate and consumes its id; otherwise the step
\* emits and consumes nothing, whatever the similarities of the other
\* candidates.
C12_SeleccionPaso2 ==
  [][(pc = "paso2" /\ i <= Len(gastos_pendientes)) =>
       LET g == gastos[gastos_pendientes[i] + 1]
           S == CandidatosVentana(g)
       IN  /\ i' = i + 1
           /\ pc' = "paso2"
           /\ IF \E c \in S : EsMejor(g, c, S) /\ EnRangoPosible(SimCon(g, c))
              THEN \E c \in S : EsMejor(g, c, S) /\ EmitePosible(g, c)
              ELSE UNCHANGED <<resultados, usados_contable>>]_vars

\* conciliar returned without any pairing although pass 2 examined a statement
\* record with two candidates in the window, one of similarity above
\* umbral_posible_max and one of similarity within the Possible range
C12_Testigo ==
  /\ pc = "fin"
  /\ \A j \in 1..Len(resultados) : resultados[j].Estado = "No conciliado"
  /\ \E g \in Rango(gastos) :
       /\ g.id \in Rango(gastos_pendientes)
       /\ \E c, d \in CandidatosVentana(g) :
            /\ EnRangoPosible(SimCon(g, c))
            /\ SimCon(g, d) > umbral_posible_max

\* the statement ids no output row reports as Matched
NoConciliadosPaso1(res) ==
  {g \in IdsGasto :
     \A j \in 1..Len(res) : res[j].id_gasto = g => res[j].Estado # "Conciliado"}

\* C13: pass 2 begins only when pass 1 has taken every statement record, and
\* the statement records it then iterates over are exactly those that pass 1
\* did not emit as Matched.
C13_Paso2SobreNoConciliados ==
  [][(pc = "paso1" /\ pc' = "paso2") =>
       /\ i > Len(gastos)
       /\ Rango(gastos_pendientes') = NoConciliadosPaso1(resultados)]_vars

\* the ledger ids among the candidates pass 2 computes for a statement record
IdsCandidatosPaso2(g) == {c.id : c \in Rango(candidatos_paso2(g))}

\* C14: a statement record that pass 1 left unmatched while a ledger record of
\* its date and amount stays unconsumed is among the records pass 2 iterates
\* over; the candidates of a step of pass 2 include every unconsumed ledger
\* record of the date and amount of its statement record; and every Matched
\* pairing has a similarity of at least the matched threshold.
C14_ReintentoEnPaso2 ==
  [][/\ (pc = "paso1" /\ pc' = "paso2") =>
          \A g \in Rango(gastos) :
            (g.id \in NoConciliadosPaso1(resultados) /\ CandidatosExactos(g) # {}) =>
              g.id \in Rango(gastos_pendientes')
     /\ (pc = "paso2" /\ i <= Len(gastos_pendientes)) =>
          CandidatosExactos(gastos[gastos_pendientes[i] + 1])
            \subseteq IdsCandidatosPaso2(gastos[gastos_pendientes[i] + 1])
     /\ \A j \in 1..Len(resultados') :
          resultados'[j].Estado = "Conciliado" =>
            /\ resultados'[j].Observaciones >= umbral_conciliado
            /\ resultados'[j].Observaciones
                 = SimCon(gastos[resultados'[j].id_gasto + 1], resultados'[j].id_contable)]_vars

====
